---- MODULE Spec2Model ----
(***************************************************************************)
(* A model of src/browser/Color.ts: the colour representation (toCss,      *)
(* toRgba, fromCss), alpha compositing (blend), WCAG luminance and         *)
(* contrast ratio, and the contrast enforcement loops                      *)
(* (ensureContrastRatio, reduceLuminance, increaseLuminance).              *)
(*                                                                         *)
(* Number representations.                                                 *)
(*  - A 32-bit value (the operand or result of <<, >>, |, &, >>> 0) is its *)
(*    bit pattern, a tuple of four bytes <<b3, b2, b1, b0>>, most          *)
(*    significant first.  ">>> 0" reinterprets the pattern as unsigned and *)
(*    leaves it as it is.                                                  *)
(*  - A string is a sequence of one-character strings.                     *)
(*  - A luminance (a double in [0,1]) is a fixed-point number in units of  *)
(*    10^-12, held as <<hi, lo>> for hi * 10^5 + lo.                       *)
(*    The linearised channel value of line 68 is tabulated to 10^-8.  Over *)
(*    the inputs drawn here the double computation and the fixed-point one *)
(*    take the same branch at every comparison (the contrast ratio never   *)
(*    comes closer than 10^-5 to the target ratio, the fixed-point error   *)
(*    of a contrast ratio is below 10^-6).                                 *)
(*  - A contrast ratio is a fraction <<numerator, denominator>> of two     *)
(*    such numbers; a target ratio is a fraction <<n, d>> of two integers. *)
(***************************************************************************)
EXTENDS Integers, Sequences, FiniteSets, TLC

VARIABLES
  pc,      \* "idle", "reduce" / "increase" (at the head of that loop), "done"
  op,      \* the exported function that was called
  ret,     \* the function whose return statement produced result
  bg, fg,  \* the IColor arguments of the call
  ratio,   \* the target ratio argument <<n, d>>
  chan,    \* the r, g, b arguments of toCss
  fgR, fgG, fgB,  \* the loop's locals
  cr,      \* the loop's local cr
  iters,   \* number of iterations of the loop of reduceLuminance executed so far
  result   \* the value returned

vars == <<pc, op, ret, bg, fg, ratio, chan, fgR, fgG, fgB, cr, iters, result>>

-----------------------------------------------------------------------------
(* Bounds of the model *)

\* number of sampled values per foreground channel
FgLevels == 5
\* number of background colours drawn from BgPalette
BgCount == 6

FgChannels == {(i * 255) \div (FgLevels - 1) : i \in 0..(FgLevels - 1)}
\* backgrounds: black, white, mid grey, and some saturated and dark colours
BgPalette ==
  <<<<0, 0, 0>>, <<255, 255, 255>>, <<128, 128, 128>>, <<205, 0, 0>>,
    <<0, 43, 54>>, <<0, 205, 0>>, <<0, 0, 238>>, <<253, 246, 227>>>>
\* alpha bytes of the foreground given to blend
BlendAlphas == {0, 1, 127, 128, 254, 255}
\* alpha bytes of the foreground given to ensureContrastRatio
EnsureAlphas == {128, 255}
\* alpha bytes of the foreground given to reduceLuminance and increaseLuminance
LoopAlphas == {255}
\* target ratios: 4.5, 7 and the unmeetable 25
Ratios == {<<9, 2>>, <<7, 1>>, <<25, 1>>}
\* channel values given to toCss
ByteSamples == {0, 9, 10, 15, 16, 127, 128, 255}

-----------------------------------------------------------------------------
(* 32-bit values *)

\* ToInt32 of an integer: the bytes of its two's complement pattern
ToInt32(n) ==
  <<(n \div 16777216) % 256, (n \div 65536) % 256, (n \div 256) % 256, n % 256>>

\* w << k, for k a multiple of 8
ShiftLeft(w, k) ==
  LET n == k \div 8
      at(i) == IF i + n <= 4 THEN w[i + n] ELSE 0
  IN  <<at(1), at(2), at(3), at(4)>>

\* w >> k (sign-propagating), for k a multiple of 8
ShiftRight(w, k) ==
  LET n == k \div 8
      s == IF w[1] >= 128 THEN 255 ELSE 0
      at(i) == IF i - n >= 1 THEN w[i - n] ELSE s
  IN  <<at(1), at(2), at(3), at(4)>>

RECURSIVE BitOr(_, _)
BitOr(a, b) ==
  IF a = 0 THEN b
  ELSE IF b = 0 THEN a
  ELSE 2 * BitOr(a \div 2, b \div 2) + (IF a % 2 = 1 \/ b % 2 = 1 THEN 1 ELSE 0)

\* x | y
WordOr(x, y) ==
  <<BitOr(x[1], y[1]), BitOr(x[2], y[2]), BitOr(x[3], y[3]), BitOr(x[4], y[4])>>

\* w & 0xFF, a number in 0..255
AndFF(w) == w[4]

-----------------------------------------------------------------------------
(* Representation *)

HexDigits ==
  <<"0", "1", "2", "3", "4", "5", "6", "7", "8", "9", "a", "b", "c", "d", "e", "f">>

\* c.toString(16)
RECURSIVE toString16(_)
toString16(c) ==
  IF c < 0 THEN <<"-">> \o toString16(-c)
  ELSE IF c < 16 THEN <<HexDigits[c + 1]>>
  ELSE Append(toString16(c \div 16), HexDigits[(c % 16) + 1])


\* toPaddedHex without the padding of a single digit
toPaddedHexUnpadded(c) == toString16(c)

toPaddedHex(c) ==
  LET s == toString16(c)
  IN  IF Len(s) < 2 THEN <<"0">> \o s ELSE s

toCss(r, g, b) == <<"#">> \o toPaddedHex(r) \o toPaddedHex(g) \o toPaddedHex(b)

toRgba(r, g, b, a) ==
  WordOr(WordOr(WordOr(ShiftLeft(ToInt32(r), 24), ShiftLeft(ToInt32(g), 16)),
                ShiftLeft(ToInt32(b), 8)),
         ToInt32(a))

IsHexDigit(ch) == \E i \in 1..16 : HexDigits[i] = ch
HexValue(ch) == (CHOOSE i \in 1..16 : HexDigits[i] = ch) - 1

\* parseInt(s, 16) of a string of lower-case digits: the longest prefix of
\* hex digits; with no digit the result is NaN, which << turns into 0
RECURSIVE parseInt16(_, _)
parseInt16(s, acc) ==
  IF s = <<>> \/ ~IsHexDigit(Head(s)) THEN acc
  ELSE parseInt16(Tail(s), acc * 16 + HexValue(Head(s)))

fromCss(css) ==
  [css  |-> css,
   rgba |-> WordOr(ShiftLeft(ToInt32(parseInt16(Tail(css), 0)), 8), ToInt32(255))]

\* an IColor whose css and rgba agree on R, G, B
Color(r, g, b, a) == [css |-> toCss(r, g, b), rgba |-> toRgba(r, g, b, a)]

\* the value a function returns for "undefined"
Undefined == [css |-> <<>>, rgba |-> <<>>]

-----------------------------------------------------------------------------
(* Compositing *)


\* Math.round with alpha normalised by 127 in place of 255
RoundScaledBy127(d, alpha) == (2 * d * alpha + 127) \div 254

\* Math.round(d * (alpha / 255)): d * alpha / 255 is never half-way between
\* two integers (2 * d * alpha is even, 255 * (2k + 1) is odd) and is at least
\* 1/510 away from it, so the double rounds as the exact quotient does
RoundScaled(d, alpha) == (2 * d * alpha + 255) \div 510


\* the interpolation with foreground and background exchanged
BlendChannelExchanged(bgC, fgC, alpha) == fgC + RoundScaled(bgC - fgC, alpha)

BlendChannel(bgC, fgC, alpha) == bgC + RoundScaled(fgC - bgC, alpha)


\* blend without the return of lines 10-15
blendWithoutShortCut(b, f) ==
  LET alpha == AndFF(f.rgba)
      r == BlendChannel(AndFF(ShiftRight(b.rgba, 24)), AndFF(ShiftRight(f.rgba, 24)), alpha)
      g == BlendChannel(AndFF(ShiftRight(b.rgba, 16)), AndFF(ShiftRight(f.rgba, 16)), alpha)
      bl == BlendChannel(AndFF(ShiftRight(b.rgba, 8)), AndFF(ShiftRight(f.rgba, 8)), alpha)
  IN  [css |-> toCss(r, g, bl), rgba |-> toRgba(r, g, bl, 255)]

blend(b, f) ==
  LET alpha == AndFF(f.rgba)
      bR == AndFF(ShiftRight(b.rgba, 24))
      bG == AndFF(ShiftRight(b.rgba, 16))
      bB == AndFF(ShiftRight(b.rgba, 8))
      fR == AndFF(ShiftRight(f.rgba, 24))
      fG == AndFF(ShiftRight(f.rgba, 16))
      fB == AndFF(ShiftRight(f.rgba, 8))
      r == BlendChannel(bR, fR, alpha)
      g == BlendChannel(bG, fG, alpha)
      bl == BlendChannel(bB, fB, alpha)
  IN  IF alpha = 255
      THEN [css |-> f.css, rgba |-> f.rgba]
      ELSE [css |-> toCss(r, g, bl), rgba |-> toRgba(r, g, bl, 255)]

-----------------------------------------------------------------------------
(* Fixed-point numbers: <<hi, lo>> stands for hi * 10^5 + lo, 0 <= lo < 10^5 *)

FixNorm(hi, lo) == <<hi + (lo \div 100000), lo % 100000>>
\* x * k for 0 <= k <= 10^4
FixMul(x, k) == FixNorm(x[1] * k, x[2] * k)
FixLess(x, y) == x[1] < y[1] \/ (x[1] = y[1] /\ x[2] < y[2])

-----------------------------------------------------------------------------
(* Luminance and contrast ratio *)

\* round(10^8 * v) for v the linearised channel of line 68:
\* cs / 12.92 if cs <= 0.03928, else ((cs + 0.055) / 1.055) ^ 2.4, cs = c / 255
LinearTable ==
  <<
     0, 30353, 60705, 91058, 121411, 151763, 182116, 212469,
     242822, 273174, 303527, 334654, 367651, 402472, 439144, 477695,
     518152, 560539, 604883, 651209, 699541, 749903, 802319, 856813,
     913406, 972122, 1032982, 1096009, 1161225, 1228649, 1298303, 1370208,
     1444384, 1520851, 1599629, 1680738, 1764195, 1850022, 1938236, 2028856,
     2121901, 2217388, 2315337, 2415763, 2518686, 2624122, 2732089, 2842604,
     2955683, 3071344, 3189603, 3310477, 3433981, 3560131, 3688945, 3820437,
     3954624, 4091520, 4231141, 4373503, 4518620, 4666509, 4817182, 4970657,
     5126946, 5286065, 5448028, 5612849, 5780543, 5951124, 6124605, 6301002,
     6480327, 6662594, 6847817, 7036010, 7227185, 7421357, 7618538, 7818742,
     8021982, 8228271, 8437621, 8650046, 8865559, 9084171, 9305896, 9530747,
     9758735, 9989873, 10224173, 10461648, 10702310, 10946171, 11193243, 11443537,
     11697067, 11953843, 12213877, 12477182, 12743768, 13013648, 13286832, 13563333,
     13843162, 14126329, 14412847, 14702727, 14995979, 15292615, 15592646, 15896084,
     16202938, 16513219, 16826940, 17144110, 17464740, 17788842, 18116424, 18447499,
     18782077, 19120168, 19461783, 19806932, 20155625, 20507874, 20863687, 21223076,
     21586050, 21952620, 22322796, 22696587, 23074005, 23455058, 23839757, 24228112,
     24620133, 25015828, 25415209, 25818285, 26225066, 26635560, 27049779, 27467731,
     27889426, 28314874, 28744084, 29177065, 29613827, 30054379, 30498731, 30946892,
     31398871, 31854678, 32314321, 32777810, 33245154, 33716362, 34191442, 34670406,
     35153260, 35640014, 36130678, 36625260, 37123768, 37626212, 38132601, 38642943,
     39157248, 39675523, 40197778, 40724021, 41254261, 41788507, 42326767, 42869050,
     43415364, 43965717, 44520119, 45078578, 45641102, 46207700, 46778380, 47353150,
     47932018, 48514994, 49102085, 49693300, 50288646, 50888132, 51491767, 52099557,
     52711513, 53327640, 53947949, 54572446, 55201140, 55834039, 56471151, 57112483,
     57758044, 58407842, 59061884, 59720179, 60382734, 61049557, 61720656, 62396039,
     63075714, 63759687, 64447968, 65140564, 65837482, 66538730, 67244316, 67954247,
     68668531, 69387176, 70110189, 70837578, 71569350, 72305513, 73046074, 73791041,
     74540421, 75294222, 76052450, 76815115, 77582222, 78353779, 79129794, 79910274,
     80695226, 81484657, 82278575, 83076988, 83879901, 84687323, 85499261, 86315721,
     87136712, 87962240, 88792312, 89626935, 90466117, 91309865, 92158186, 93011086,
     93868573, 94730654, 95597335, 96468625, 97344529, 98225055, 99110210, 100000000
  >>

Linearised(c) == LinearTable[c + 1]

\* rr * 0.2126 + rg * 0.7152 + rb * 0.0722, in units of 10^-12
rgbRelativeLuminance2(r, g, b) ==
  LET lr == Linearised(r)
      lg == Linearised(g)
      lb == Linearised(b)
  IN  FixNorm(2126 * (lr \div 100000) + 7152 * (lg \div 100000) + 722 * (lb \div 100000),
              2126 * (lr % 100000) + 7152 * (lg % 100000) + 722 * (lb % 100000))

\* rgbRelativeLuminance with the byte offsets 24, 16, 8 of a packed colour
rgbRelativeLuminancePacked(rgb) ==
  rgbRelativeLuminance2(AndFF(ShiftRight(rgb, 24)), AndFF(ShiftRight(rgb, 16)),
                        AndFF(ShiftRight(rgb, 8)))

\* the argument is a 32-bit value, the packed colour shifted right by 8
rgbRelativeLuminance(rgb) ==
  rgbRelativeLuminance2(AndFF(ShiftRight(rgb, 16)), AndFF(ShiftRight(rgb, 8)), AndFF(rgb))

\* l + 0.05
PlusOffset(l) == <<l[1] + 500000, l[2]>>

contrastRatio(l1, l2) ==
  IF FixLess(l1, l2)
  THEN <<PlusOffset(l2), PlusOffset(l1)>>
  ELSE <<PlusOffset(l1), PlusOffset(l2)>>

\* c < rt, for a contrast ratio c and a target ratio rt
RatioLess(c, rt) == FixLess(FixMul(c[1], rt[2]), FixMul(c[2], rt[1]))

-----------------------------------------------------------------------------
(* Contrast enforcement *)

Max(a, b) == IF a > b THEN a ELSE b
Min(a, b) == IF a < b THEN a ELSE b

\* Math.ceil(c * 0.1) and Math.floor(k * 0.1): for the integers 0..255 the
\* double product c * 0.1 has the ceiling and the floor of the exact c / 10
CeilTenth(c) == -((-c) \div 10)
FloorTenth(k) == k \div 10


\* line 116-118: c -= Math.max(0, Math.ceil(c * 0.1))
ReduceChannel(c) == c - Max(0, CeilTenth(c))

\* line 139-141: c = Math.min(0xFF, c + Math.floor((255 - c) * 0.1))
IncreaseChannel(c) == Min(255, c + FloorTenth(255 - c))

\* lines 113, 119, 136, 142: the loop's contrast ratio; the foreground's blue
\* is passed where rgbRelativeLuminance2 takes green, and green where it
\* takes blue
LoopContrast(r, g, b, bgc) ==
  contrastRatio(rgbRelativeLuminance2(r, b, g),
                rgbRelativeLuminance2(AndFF(ShiftRight(bgc.rgba, 24)),
                                      AndFF(ShiftRight(bgc.rgba, 16)),
                                      AndFF(ShiftRight(bgc.rgba, 8))))

\* the condition of line 114 with && between the channel tests
ReduceCondEveryChannel == RatioLess(cr, ratio) /\ (fgR > 0 /\ fgG > 0 /\ fgB > 0)

\* the conditions of the two while loops
ReduceCond == RatioLess(cr, ratio) /\ (fgR > 0 \/ fgG > 0 \/ fgB > 0)
IncreaseCond == RatioLess(cr, ratio) /\ (fgR < 255 \/ fgG < 255 \/ fgB < 255)

\* lines 92-94 of ensureContrastRatio
EnsureBgL(b) == rgbRelativeLuminance(ShiftRight(b.rgba, 8))
EnsureFgL(f) == rgbRelativeLuminance(ShiftRight(f.rgba, 8))
EnsureCr(b, f) == contrastRatio(EnsureBgL(b), EnsureFgL(f))
\* line 95
NeedsAdjustment(b, f, rt) == RatioLess(EnsureCr(b, f), rt)
\* the test of line 96 with its operands exchanged
FgDarkerExchanged(b, f) == FixLess(EnsureBgL(b), EnsureFgL(f))
\* line 96
FgDarker(b, f) == FixLess(EnsureFgL(f), EnsureBgL(b))

-----------------------------------------------------------------------------
(* Inputs *)

BgColors ==
  {Color(BgPalette[i][1], BgPalette[i][2], BgPalette[i][3], 255) :
     i \in 1..Min(BgCount, Len(BgPalette))}
FgColors(alphas) ==
  {Color(r, g, b, a) : r \in FgChannels, g \in FgChannels, b \in FgChannels, a \in alphas}

\* a css string other than the one toCss gives: the digits in upper case
UpperDigit(ch) ==
  CASE ch = "a" -> "A" [] ch = "b" -> "B" [] ch = "c" -> "C"
    [] ch = "d" -> "D" [] ch = "e" -> "E" [] ch = "f" -> "F" [] OTHER -> ch
UpperCss(css) == [i \in 1..Len(css) |-> UpperDigit(css[i])]
BlendFgColors ==
  FgColors(BlendAlphas) \cup
  {[css |-> UpperCss(c.css), rgba |-> c.rgba] : c \in FgColors(BlendAlphas)}

-----------------------------------------------------------------------------
(* The state machine.  The exported functions are called from the idle state,
   which the Call actions test. *)

Init ==
  /\ pc = "idle"
  /\ op = "none"
  /\ ret = "none"
  /\ bg = Color(0, 0, 0, 255)
  /\ fg = Color(0, 0, 0, 255)
  /\ ratio = <<1, 1>>
  /\ chan = <<0, 0, 0>>
  /\ fgR = 0 /\ fgG = 0 /\ fgB = 0
  /\ cr = <<PlusOffset(<<0, 0>>), PlusOffset(<<0, 0>>)>>
  /\ iters = 0
  /\ result = Undefined

\* a call of blend(b, f)
Blend(b, f) ==
  /\ op' = "blend" /\ ret' = "blend" /\ pc' = "done"
  /\ bg' = b /\ fg' = f
  /\ result' = blend(b, f)
  /\ UNCHANGED <<ratio, chan, fgR, fgG, fgB, cr, iters>>

\* a call of toCss(r, g, b)
ToCss(r, g, b) ==
  /\ op' = "toCss" /\ ret' = "toCss" /\ pc' = "done"
  /\ chan' = <<r, g, b>>
  /\ result' = [css |-> toCss(r, g, b), rgba |-> <<>>]
  /\ UNCHANGED <<bg, fg, ratio, fgR, fgG, fgB, cr, iters>>

\* a call of fromCss on the string toCss has returned
FromCss ==
  /\ pc = "done" /\ op = "toCss"
  /\ op' = "fromCss" /\ ret' = "fromCss"
  /\ result' = fromCss(result.css)
  /\ UNCHANGED <<pc, bg, fg, ratio, chan, fgR, fgG, fgB, cr, iters>>

\* lines 107-113 and 130-136: the locals at the first test of the loop
EnterLoop(loop, b, f) ==
  /\ pc' = loop
  /\ fgR' = AndFF(ShiftRight(f.rgba, 24))
  /\ fgG' = AndFF(ShiftRight(f.rgba, 16))
  /\ fgB' = AndFF(ShiftRight(f.rgba, 8))
  /\ cr' = LoopContrast(fgR', fgG', fgB', b)
  /\ iters' = 0
  /\ UNCHANGED <<ret, result>>

\* a call of ensureContrastRatio(b, f, rt), up to its return or to the first
\* test of the loop it runs
EnsureContrastRatio(b, f, rt) ==
  /\ op' = "ensureContrastRatio"
  /\ bg' = b /\ fg' = f /\ ratio' = rt
  /\ UNCHANGED chan
  /\ IF NeedsAdjustment(b, f, rt)
     THEN IF FgDarker(b, f)
          THEN EnterLoop("reduce", b, f)
          ELSE EnterLoop("increase", b, f)
     ELSE /\ pc' = "done" /\ ret' = "ensureContrastRatio"
          /\ result' = Undefined
          /\ UNCHANGED <<fgR, fgG, fgB, cr, iters>>

\* a direct call of reduceLuminance(b, f, rt), up to the first test of its loop
ReduceLuminance(b, f, rt) ==
  /\ op' = "reduceLuminance"
  /\ bg' = b /\ fg' = f /\ ratio' = rt
  /\ UNCHANGED chan
  /\ EnterLoop("reduce", b, f)

\* a direct call of increaseLuminance(b, f, rt), up to the first test of its loop
IncreaseLuminance(b, f, rt) ==
  /\ op' = "increaseLuminance"
  /\ bg' = b /\ fg' = f /\ ratio' = rt
  /\ UNCHANGED chan
  /\ EnterLoop("increase", b, f)

\* one iteration of the loop of reduceLuminance
ReduceStep ==
  /\ pc = "reduce" /\ ReduceCond
  /\ fgR' = ReduceChannel(fgR)
  /\ fgG' = ReduceChannel(fgG)
  /\ fgB' = ReduceChannel(fgB)
  /\ cr' = LoopContrast(fgR', fgG', fgB', bg)
  /\ iters' = iters + 1
  /\ UNCHANGED <<pc, op, ret, bg, fg, ratio, chan, result>>

\* the loop of reduceLuminance ends and the function returns
ReduceReturn ==
  /\ pc = "reduce" /\ ~ReduceCond
  /\ pc' = "done" /\ ret' = "reduceLuminance"
  /\ result' = [css |-> toCss(fgR, fgG, fgB), rgba |-> toRgba(fgR, fgG, fgB, 255)]
  /\ UNCHANGED <<op, bg, fg, ratio, chan, fgR, fgG, fgB, cr, iters>>

\* one iteration of the loop of increaseLuminance
IncreaseStep ==
  /\ pc = "increase" /\ IncreaseCond
  /\ fgR' = IncreaseChannel(fgR)
  /\ fgG' = IncreaseChannel(fgG)
  /\ fgB' = IncreaseChannel(fgB)
  /\ cr' = LoopContrast(fgR', fgG', fgB', bg)
  /\ UNCHANGED <<pc, op, ret, bg, fg, ratio, chan, iters, result>>

\* the loop of increaseLuminance ends and the function returns
IncreaseReturn ==
  /\ pc = "increase" /\ ~IncreaseCond
  /\ pc' = "done" /\ ret' = "increaseLuminance"
  /\ result' = [css |-> toCss(fgR, fgG, fgB), rgba |-> toRgba(fgR, fgG, fgB, 255)]
  /\ UNCHANGED <<op, bg, fg, ratio, chan, fgR, fgG, fgB, cr, iters>>

CallBlend == pc = "idle" /\ \E b \in BgColors, f \in BlendFgColors : Blend(b, f)
CallToCss ==
  pc = "idle" /\ \E r \in ByteSamples, g \in ByteSamples, b \in ByteSamples : ToCss(r, g, b)
CallEnsureContrastRatio ==
  /\ pc = "idle"
  /\ \E b \in BgColors, f \in FgColors(EnsureAlphas), rt \in Ratios :
    EnsureContrastRatio(b, f, rt)
CallReduceLuminance ==
  /\ pc = "idle"
  /\ \E b \in BgColors, f \in FgColors(LoopAlphas), rt \in Ratios :
    ReduceLuminance(b, f, rt)
CallIncreaseLuminance ==
  /\ pc = "idle"
  /\ \E b \in BgColors, f \in FgColors(LoopAlphas), rt \in Ratios :
    IncreaseLuminance(b, f, rt)

Next ==
  \/ CallBlend
  \/ CallToCss
  \/ FromCss
  \/ CallEnsureContrastRatio
  \/ CallReduceLuminance
  \/ CallIncreaseLuminance
  \/ ReduceStep
  \/ ReduceReturn
  \/ IncreaseStep
  \/ IncreaseReturn

Spec == Init /\ [][Next]_vars

-----------------------------------------------------------------------------
(* Notions the properties are stated in *)

\* the R, G, B bytes and the alpha byte of a packed value
RGB(c) == <<c.rgba[1], c.rgba[2], c.rgba[3]>>
Alpha(c) == c.rgba[4]

\* luminance and contrast ratio with the channels in the order R, G, B
CanonicalL(c) == rgbRelativeLuminance2(c.rgba[1], c.rgba[2], c.rgba[3])
CanonicalCr(a, b) == contrastRatio(CanonicalL(a), CanonicalL(b))

\* no pair of colours reaches the target ratio rt: rt > 21
Unmeetable(rt) == rt[1] > 21 * rt[2]

FixAdd(x, y) == FixNorm(x[1] + y[1], x[2] + y[2])
\* luminance n is strictly further from luminance b than luminance o is:
\* |n - b| > |o - b|, that is (n - o) * (n + o - 2b) > 0
Further(n, o, b) ==
  \/ FixLess(o, n) /\ FixLess(FixAdd(b, b), FixAdd(n, o))
  \/ FixLess(n, o) /\ FixLess(FixAdd(n, o), FixAdd(b, b))

\* an iteration of the loop of increaseLuminance is due and changes no channel
IncreaseStalls ==
  /\ pc = "increase" /\ IncreaseCond
  /\ IncreaseChannel(fgR) = fgR
  /\ IncreaseChannel(fgG) = fgG
  /\ IncreaseChannel(fgB) = fgB

Between(x, a, b) == Min(a, b) <= x /\ x <= Max(a, b)

-----------------------------------------------------------------------------
(* Properties *)

\* C1: ensureContrastRatio with opaque colours, a foreground not darker than
\* the background and a target ratio above 21 runs increaseLuminance, whose
\* loop terminates (it never comes to an iteration that is due and leaves
\* every channel as it is, after which it would repeat for ever), and the
\* colour returned has R = G = B = 255.
C1_IncreaseSaturates ==
  (/\ op = "ensureContrastRatio"
   /\ Alpha(bg) = 255 /\ Alpha(fg) = 255
   /\ Unmeetable(ratio)
   /\ ~FixLess(CanonicalL(fg), CanonicalL(bg)))
  => /\ pc \in {"increase", "done"}
     /\ ~IncreaseStalls
     /\ pc = "done" => ret = "increaseLuminance" /\ RGB(result) = <<255, 255, 255>>

\* C2: the loop of reduceLuminance runs at most 256 iterations, no channel
\* becomes negative, and when the loop's contrast ratio is still below the
\* target at the return, the three channels are 0 and the colour returned
\* is #000000.
C2_ReduceBounded ==
  /\ pc = "reduce" => iters <= 256 /\ fgR >= 0 /\ fgG >= 0 /\ fgB >= 0
  /\ (pc = "done" /\ ret = "reduceLuminance") =>
       /\ iters <= 256 /\ fgR >= 0 /\ fgG >= 0 /\ fgB >= 0
       /\ RatioLess(cr, ratio) =>
            /\ fgR = 0 /\ fgG = 0 /\ fgB = 0
            /\ result = [css |-> <<"#", "0", "0", "0", "0", "0", "0">>,
                         rgba |-> <<0, 0, 0, 255>>]

C2_Witness ==
  /\ pc = "done" /\ ret = "reduceLuminance"
  /\ RGB(fg) = <<255, 255, 255>>
  /\ RatioLess(cr, ratio)
  /\ iters >= 30
  /\ RGB(result) = <<0, 0, 0>>

\* C3: in the loops that ensureContrastRatio runs, every iteration that is
\* due moves the foreground's luminance strictly further from the
\* background's.
C3_StrictlyFurther ==
  op = "ensureContrastRatio" =>
    /\ (pc = "reduce" /\ ReduceCond) =>
         Further(rgbRelativeLuminance2(ReduceChannel(fgR), ReduceChannel(fgG),
                                       ReduceChannel(fgB)),
                 rgbRelativeLuminance2(fgR, fgG, fgB), CanonicalL(bg))
    /\ (pc = "increase" /\ IncreaseCond) =>
         Further(rgbRelativeLuminance2(IncreaseChannel(fgR), IncreaseChannel(fgG),
                                       IncreaseChannel(fgB)),
                 rgbRelativeLuminance2(fgR, fgG, fgB), CanonicalL(bg))

\* C4: ensureContrastRatio returns undefined exactly when the contrast ratio
\* of the R, G, B bytes of bg and fg (alpha left out) is at least the target
\* ratio, it runs a loop and returns a colour only when that ratio is below
\* the target, and bg and fg stay as they were passed.
C4_State ==
  op = "ensureContrastRatio" =>
    /\ pc = "done" =>
         (result = Undefined <=> ~RatioLess(CanonicalCr(bg, fg), ratio))
    /\ pc \in {"reduce", "increase"} => RatioLess(CanonicalCr(bg, fg), ratio)
C5_OpaqueForeground ==
  (op = "blend" /\ Alpha(fg) = 255) =>
    /\ pc = "done"
    /\ result.css = fg.css
    /\ result.rgba = fg.rgba

C5_Witness ==
  /\ op = "blend" /\ Alpha(fg) = 255
  /\ fg.css # toCss(fg.rgba[1], fg.rgba[2], fg.rgba[3])
  /\ RGB(bg) # RGB(fg)
  /\ result.css = fg.css

\* C6: blend with a foreground of alpha byte 0 returns the background's
\* R, G, B bytes with alpha byte 255 and the css of those three bytes.
C6_TransparentForeground ==
  (op = "blend" /\ Alpha(fg) = 0) =>
    /\ RGB(result) = RGB(bg)
    /\ Alpha(result) = 255
    /\ result.css = toCss(bg.rgba[1], bg.rgba[2], bg.rgba[3])

C6_Witness ==
  /\ op = "blend" /\ Alpha(fg) = 0
  /\ \A i \in 1..3 : fg.rgba[i] # bg.rgba[i]
  /\ RGB(result) = RGB(bg)

\* C7: toCss gives '#' and six lower-case hex digits, and fromCss of that
\* string gives the packed value of toRgba(r, g, b, 255), the bytes
\* r, g, b, 255, with the string as its css.
C7_RoundTrip ==
  /\ op = "toCss" =>
       /\ Len(result.css) = 7
       /\ result.css[1] = "#"
       /\ \A i \in 2..7 : IsHexDigit(result.css[i])
  /\ op = "fromCss" =>
       /\ result.rgba = toRgba(chan[1], chan[2], chan[3], 255)
       /\ result.rgba = <<chan[1], chan[2], chan[3], 255>>
       /\ result.css = toCss(chan[1], chan[2], chan[3])
       /\ Len(result.css) = 7

C7_Witness ==
  /\ op = "fromCss"
  /\ chan[1] >= 128 /\ chan[2] < 16 /\ chan[3] = 255
  /\ result.rgba[1] = chan[1]

\* C8: a colour returned by ensureContrastRatio has every channel at most the
\* foreground's when the foreground is darker than the background, and at
\* least the foreground's otherwise; its luminance is on the side of the
\* background's luminance where the foreground's was.
C8_AwayFromBackground ==
  (pc = "done" /\ op = "ensureContrastRatio" /\ result # Undefined) =>
    IF FixLess(CanonicalL(fg), CanonicalL(bg))
    THEN /\ \A i \in 1..3 : result.rgba[i] <= fg.rgba[i]
         /\ FixLess(CanonicalL(result), CanonicalL(bg))
    ELSE /\ \A i \in 1..3 : result.rgba[i] >= fg.rgba[i]
         /\ ~FixLess(CanonicalL(result), CanonicalL(bg))

C8_Witness ==
  /\ pc = "done" /\ op = "ensureContrastRatio" /\ result # Undefined
  /\ FixLess(CanonicalL(fg), CanonicalL(bg))
  /\ \E i \in 1..3 : result.rgba[i] < fg.rgba[i]

\* C9: with a foreground alpha byte in 0..254 every channel blend computes
\* lies between the background's and the foreground's channel, the packed
\* value returned holds these channels and alpha byte 255, and the css
\* returned is that of the same three bytes.
C9_BlendInRange ==
  (op = "blend" /\ Alpha(fg) <= 254) =>
    /\ \A i \in 1..3 :
         /\ Between(BlendChannel(bg.rgba[i], fg.rgba[i], Alpha(fg)), bg.rgba[i], fg.rgba[i])
         /\ result.rgba[i] = BlendChannel(bg.rgba[i], fg.rgba[i], Alpha(fg))
         /\ Between(result.rgba[i], bg.rgba[i], fg.rgba[i])
    /\ Alpha(result) = 255
    /\ result.css = toCss(result.rgba[1], result.rgba[2], result.rgba[3])
    /\ Len(result.css) = 7

C9_Witness ==
  /\ op = "blend" /\ Alpha(fg) = 127
  /\ \E i \in 1..3 :
       /\ Min(bg.rgba[i], fg.rgba[i]) < result.rgba[i]
       /\ result.rgba[i] < Max(bg.rgba[i], fg.rgba[i])

\* C10: a colour returned by the loop ensureContrastRatio ran, other than the
\* loop's boundary colour (#000000 for reduceLuminance, #ffffff for
\* increaseLuminance), has a contrast ratio to bg, with the channels in the
\* order R, G, B, of at least the target ratio.
C10_TargetMet ==
  (pc = "done" /\ op = "ensureContrastRatio") =>
    /\ (ret = "reduceLuminance" /\ RGB(result) # <<0, 0, 0>>) =>
         ~RatioLess(CanonicalCr(result, bg), ratio)
    /\ (ret = "increaseLuminance" /\ RGB(result) # <<255, 255, 255>>) =>
         ~RatioLess(CanonicalCr(result, bg), ratio)

====
